---- MODULE Spec2Model ----
(***************************************************************************)
(* Model of the conversational shopping agent                              *)
(* (class_4_shopping_agent_project/shopping_agent.py): the catalog tool    *)
(* get_products_api and the interaction loop run_shopping_agent.           *)
(*                                                                         *)
(* Strings the code inspects (user input, queries, product fields) are     *)
(* sequences of one-character strings, so that strip(), lower() and the    *)
(* substring test are computed.  The LLM endpoint, the catalog endpoint    *)
(* and the console are external: each call to them is a nondeterministic   *)
(* choice over what they can hand back (a value or an exception).          *)
(***************************************************************************)
EXTENDS Integers, Sequences, FiniteSets, TLC

VARIABLES
    messages,      \* run_shopping_agent: the transcript list
    pc,            \* position of run_shopping_agent in its loop
    user_input,    \* run_shopping_agent: last line read from the console
    tool_calls,    \* run_shopping_agent: tool_calls of the last first response
    idx,           \* position of the for loop in tool_calls (1-based)
    n_first,       \* first model calls (with tools) made since the last input
    n_follow,      \* follow-up model calls made since the last input
    n_fetch,       \* catalog GETs sent since the last input
    last_request,  \* the last request submitted to the chat endpoint
    raised,        \* exception raised inside the last step ("" when none)
    f_pc,          \* a call of get_products_api on its own: its position
    f_args,        \* the argument payload it was called from ("" if direct)
    f_query,       \* its query argument
    f_http,        \* what the catalog endpoint hands back to it
    f_result       \* its return value

loop_vars == <<messages, pc, user_input, tool_calls, idx,
               n_first, n_follow, n_fetch, last_request, raised>>

fetch_vars == <<f_pc, f_args, f_query, f_http, f_result>>

vars == <<messages, pc, user_input, tool_calls, idx,
          n_first, n_follow, n_fetch, last_request, raised,
          f_pc, f_args, f_query, f_http, f_result>>

----------------------------------------------------------------------------
(* Bounds *)

\* Longest transcript explored.  A turn is started, and a response with n
\* tool-call requests is considered, only when the whole turn fits.
MaxMessages == 8

\* Longest catalog handed to a call of get_products_api checked on its own.
MaxProducts == 2

----------------------------------------------------------------------------
(* Strings *)

UpperAlpha == <<"A","B","C","D","E","F","G","H","I","J","K","L","M",
                "N","O","P","Q","R","S","T","U","V","W","X","Y","Z">>
LowerAlpha == <<"a","b","c","d","e","f","g","h","i","j","k","l","m",
                "n","o","p","q","r","s","t","u","v","w","x","y","z">>
Whitespace == {" ", "\t", "\n"}

LowerChar(c) ==
    IF \E i \in 1..26 : UpperAlpha[i] = c
    THEN LowerAlpha[CHOOSE i \in 1..26 : UpperAlpha[i] = c]
    ELSE c

\* str.lower()
lower(s) == [i \in 1..Len(s) |-> LowerChar(s[i])]

RECURSIVE lstrip(_)
lstrip(s) ==
    IF s # <<>> /\ Head(s) \in Whitespace THEN lstrip(Tail(s)) ELSE s

RECURSIVE rstrip(_)
rstrip(s) ==
    IF s # <<>> /\ s[Len(s)] \in Whitespace
    THEN rstrip(SubSeq(s, 1, Len(s) - 1))
    ELSE s

\* str.strip()
strip(s) == rstrip(lstrip(s))

\* Python's "a in b" on strings
Contains(a, b) ==
    \E k \in 0..(Len(b) - Len(a)) : SubSeq(b, k + 1, k + Len(a)) = a

RECURSIVE join(_, _)
\* sep.join(parts)
join(sep, parts) ==
    IF parts = <<>> THEN <<>>
    ELSE IF Len(parts) = 1 THEN parts[1]
    ELSE parts[1] \o sep \o join(sep, Tail(parts))

----------------------------------------------------------------------------
(* Catalog client: get_products_api *)

None == [is_none |-> TRUE, text |-> <<>>]
Str(s) == [is_none |-> FALSE, text |-> s]

\* dict.get(key, "") on a product
Get(product, key) == IF key \in DOMAIN product THEN product[key] ELSE <<>>

Catalog ==
    << [id |-> "p1", productName |-> <<"C","a","p">>,
        description |-> <<"r","e","d">>, category |-> <<"H","a","t">>,
        price |-> 10000],
       [id |-> "p2", productName |-> <<"M","u","g">>, price |-> 500] >>

\* What requests.get / raise_for_status / response.json can hand back.
HttpOutcomes ==
    { [raises |-> "RequestException", has_data |-> FALSE, is_list |-> FALSE,
       data |-> <<>>],
      [raises |-> "", has_data |-> FALSE, is_list |-> FALSE, data |-> <<>>],
      [raises |-> "", has_data |-> TRUE, is_list |-> TRUE, data |-> Catalog] }

\* A field the catalog sends as JSON null: present, and not a string.
NullField == <<"<null>">>

\* " ".join([...]) raises TypeError on a field that is not a string
JoinRaises(product) ==
    \E key \in {"productName", "description", "category"} :
        Get(product, key) = NullField

\* Variant: the text is searched as written, only the query is lower-cased.
searchable_text_AsWritten(product) ==
    join(<<" ">>, << Get(product, "productName"),
                    Get(product, "description"),
                    Get(product, "category") >>)

searchable_text(product) ==
    lower(join(<<" ">>, << Get(product, "productName"),
                          Get(product, "description"),
                          Get(product, "category") >>))

RECURSIVE filter_products(_, _)
filter_products(products, query_lower) ==
    IF products = <<>> THEN <<>>
    ELSE IF Contains(query_lower, searchable_text(Head(products)))
         THEN <<Head(products)>> \o filter_products(Tail(products), query_lower)
         ELSE filter_products(Tail(products), query_lower)

\* Variant: the format error also carries an empty product list.
FormatError_WithData(http) ==
    [error |-> "API response format invalid", raw_response |-> http,
     data |-> <<>>]

\* The result for a body without a 'data' list
FormatError(http) ==
    [error |-> "API response format invalid", raw_response |-> http]

\* Variant: the filter is entered for every query that is not None.
get_products_api_IsNotNone(query, http) ==
    IF http.raises = "RequestException"
    THEN [error |-> "Failed to fetch products from API"]
    ELSE IF http.raises # ""
    THEN [error |-> "An unexpected error occurred"]
    ELSE IF ~http.has_data \/ ~http.is_list
    THEN FormatError(http)
    ELSE IF ~query.is_none
    THEN IF \E i \in DOMAIN http.data : JoinRaises(http.data[i])
         THEN [error |-> "An unexpected error occurred"]
         ELSE [data |-> filter_products(http.data, lower(query.text))]
    ELSE [data |-> http.data]

get_products_api(query, http) ==
    IF http.raises = "RequestException"
    THEN [error |-> "Failed to fetch products from API"]
    ELSE IF http.raises # ""
    THEN [error |-> "An unexpected error occurred"]
    ELSE IF ~http.has_data \/ ~http.is_list
    THEN FormatError(http)
    ELSE IF ~query.is_none /\ query.text # <<>>
    THEN IF \E i \in DOMAIN http.data : JoinRaises(http.data[i])
         THEN [error |-> "An unexpected error occurred"]
         ELSE [data |-> filter_products(http.data, lower(query.text))]
    ELSE [data |-> http.data]

\* Products the catalog may list: all fields, fields missing, a null field.
ProductPool ==
    { Catalog[1], Catalog[2],
      [id |-> "p3", description |-> <<"C","A","P">>, price |-> 1],
      [id |-> "p4", productName |-> <<"C","a","p">>,
       description |-> NullField, price |-> 2] }

\* Queries a caller may pass
Queries ==
    { None, Str(<<>>), Str(<<"C","A","P">>), Str(<<"P"," ","r">>),
      Str(<<"g"," "," ">>), Str(<<"z">>) }

----------------------------------------------------------------------------
(* Tool registry and message shapes *)

available_tools == <<"get_products_api">>

NoId == ""
ToolCallIds == {"call_a", "call_b"}
NoTools == <<>>

Message(role, content) ==
    [role |-> role, content |-> content, tool_calls |-> <<>>,
     tool_call_id |-> NoId, name |-> ""]

SYSTEM_PROMPT == <<"SYSTEM_PROMPT", <<>>>>
Apology == <<"I apologize, but I encountered an error", <<>>>>

\* json.dumps(tool_output, indent=2): the text names the variant and what
\* it carries (products by their id).
json_dumps(tool_output) ==
    IF "data" \in DOMAIN tool_output
    THEN <<"data", [i \in 1..Len(tool_output.data) |-> tool_output.data[i].id]>>
    ELSE IF "raw_response" \in DOMAIN tool_output
    THEN <<"error", <<tool_output.error, "raw_response">>>>
    ELSE <<"error", <<tool_output.error>>>>

\* Variant: a lenient decoder that reads anything that is not JSON as {}.
json_loads_Lenient(s) ==
    CASE s = "{\"query\": \"CAP\"}" ->
            [raises |-> "", value |-> {<<"query", <<"C","A","P">>>>}]
      [] s = "{\"q\": \"CAP\"}" ->
            [raises |-> "", value |-> {<<"q", <<"C","A","P">>>>}]
      [] OTHER -> [raises |-> "", value |-> {}]

\* json.loads on the argument payloads the model considers.
json_loads(s) ==
    CASE s = "{}" -> [raises |-> "", value |-> {}]
      [] s = "{\"query\": \"CAP\"}" ->
            [raises |-> "", value |-> {<<"query", <<"C","A","P">>>>}]
      [] s = "{\"q\": \"CAP\"}" ->
            [raises |-> "", value |-> {<<"q", <<"C","A","P">>>>}]
      [] OTHER -> [raises |-> "JSONDecodeError", value |-> {}]

\* get_products_api(**args) binds only the keyword 'query'.
Accepts(args) == \A kv \in args : kv[1] = "query"
QueryOf(args) ==
    IF \E kv \in args : kv[1] = "query"
    THEN Str((CHOOSE kv \in args : kv[1] = "query")[2])
    ELSE None

----------------------------------------------------------------------------
(* What the external collaborators can produce *)

Inputs ==
    { <<>>, <<"h","i">>,
      <<"q","u","i","t">>, <<" ","E","x","I","T","\n">> }

ArgPayloads == {"{}", "{\"query\": \"CAP\"}", "{\"q\": \"CAP\"}", "{not json"}

ToolCallRequests ==
    [id : ToolCallIds, name : {"get_products_api"}, arguments : ArgPayloads]
    \cup [id : ToolCallIds, name : {"get_weather"}, arguments : {"{}", "{not json"}]

RECURSIVE SeqsUpTo(_, _)
SeqsUpTo(S, n) ==
    IF n <= 0 THEN {<<>>}
    ELSE LET shorter == SeqsUpTo(S, n - 1)
         IN shorter \cup {Append(q, x) : q \in {t \in shorter : Len(t) = n - 1}, x \in S}

\* Response of the first chat completion: an exception, prose, or requests.
FirstResponses(room) ==
    { [raises |-> "APIError", content |-> <<"None", <<>>>>, tool_calls |-> <<>>] }
    \cup { [raises |-> "", content |-> <<"answer", <<>>>>, tool_calls |-> <<>>] }
    \cup { [raises |-> "", content |-> <<"None", <<>>>>, tool_calls |-> tcs] :
             tcs \in SeqsUpTo(ToolCallRequests, (room - 1) \div 2) \ {<<>>} }

\* Response of a follow-up chat completion.  The endpoint is not trusted to
\* answer in prose: it may still hand back tool-call requests.
FollowUpResponses ==
    { [raises |-> "APIError", content |-> <<"None", <<>>>>, tool_calls |-> <<>>],
      [raises |-> "", content |-> <<"answer", <<>>>>, tool_calls |-> <<>>],
      [raises |-> "", content |-> <<"None", <<>>>>,
       tool_calls |-> <<[id |-> "call_a", name |-> "get_products_api", arguments |-> "{}"]>>] }

----------------------------------------------------------------------------
(* run_shopping_agent *)

\* Variant: the empty line ends the session too.
Sentinels_WithEmpty == { <<>>, <<"e","x","i","t">>, <<"q","u","i","t">> }

Sentinels == { <<"e","x","i","t">>, <<"q","u","i","t">> }

\* Variant: the line is compared as typed.
IsExit_Exact(line) == line \in { <<"e","x","i","t">>, <<"q","u","i","t">> }

\* user_input.strip().lower() in ("exit", "quit")
IsExit(line) == lower(strip(line)) \in Sentinels

\* Variant: every requested name is routed to the one tool.
IsKnownTool_Any(function_name) == TRUE

\* if function_name == "get_products_api"
IsKnownTool(function_name) == function_name = "get_products_api"

\* Variant: only the prose of the first response is recorded.
RequestMessage_ContentOnly(r) == Message("assistant", r.content)

\* messages.append(response_message): the assistant message of the first
\* response, carrying its tool-call requests
RequestMessage(r) ==
    [Message("assistant", r.content) EXCEPT !.tool_calls = r.tool_calls]

\* Variant: the tool-result message does not carry the request's id.
ToolMessage_NoId(tc, content) ==
    [role |-> "tool", content |-> content, tool_calls |-> <<>>,
     tool_call_id |-> NoId, name |-> tc.name]

\* The tool-result message of one request
ToolMessage(tc, content) ==
    [role |-> "tool", content |-> content, tool_calls |-> <<>>,
     tool_call_id |-> tc.id, name |-> tc.name]

\* Arguments of the first chat completion of a turn
FirstRequest(msgs) ==
    [messages |-> msgs, tools |-> available_tools, tool_choice |-> "auto"]

\* Variant: the follow-up completion is given the tool declarations too.
FollowUpRequest_WithTools(msgs) ==
    [messages |-> msgs, tools |-> available_tools, tool_choice |-> "auto"]

\* Arguments of the follow-up chat completion: no tools, no tool_choice
FollowUpRequest(msgs) ==
    [messages |-> msgs, tools |-> NoTools, tool_choice |-> ""]

Init ==
    /\ messages = << Message("system", SYSTEM_PROMPT) >>
    /\ pc = "AwaitingUserInput"
    /\ user_input = <<>>
    /\ tool_calls = <<>>
    /\ idx = 0
    /\ n_first = 0
    /\ n_follow = 0
    /\ n_fetch = 0
    /\ last_request = [messages |-> <<>>, tools |-> NoTools, tool_choice |-> "none yet"]
    /\ raised = ""
    /\ f_pc = "idle"
    /\ f_args = ""
    /\ f_query = None
    /\ f_http = [raises |-> "", has_data |-> FALSE, is_list |-> FALSE, data |-> <<>>]
    /\ f_result = [pending |-> TRUE]

\* console.input, the exit test and messages.append of the user message
ReadInput(line) ==
    /\ pc = "AwaitingUserInput"
    /\ user_input' = line
    /\ IF IsExit(line)
       THEN /\ pc' = "SessionEnd"
            /\ UNCHANGED <<messages, n_first, n_follow, n_fetch>>
       ELSE /\ Len(messages) + 2 <= MaxMessages
            /\ messages' = Append(messages, Message("user", <<"user", line>>))
            /\ pc' = "AwaitingModelResponse"
            /\ n_first' = 0
            /\ n_follow' = 0
            /\ n_fetch' = 0
    /\ raised' = ""
    /\ UNCHANGED <<tool_calls, idx, last_request>>
    /\ UNCHANGED fetch_vars

UserInput == \E line \in Inputs : ReadInput(line)

\* Variant: the handler takes the failed user message back out.
TurnLevelHandler_DropInput ==
    /\ messages' = Append(SubSeq(messages, 1, Len(messages) - 1),
                          Message("assistant", Apology))
    /\ pc' = "AwaitingUserInput"

\* Variant: the handler only prints the failure.
TurnLevelHandler_Silent ==
    /\ messages' = messages
    /\ pc' = "AwaitingUserInput"

\* Variant: the handler reports the failure and lets it end the process.
TurnLevelHandler_Raise ==
    /\ messages' = Append(messages, Message("assistant", Apology))
    /\ pc' = "SessionEnd"

\* except Exception at the turn level: the apology is appended and the while
\* loop goes round to the next input
TurnLevelHandler ==
    /\ messages' = Append(messages, Message("assistant", Apology))
    /\ pc' = "AwaitingUserInput"

\* Variant: the response message is recorded before the branch, so the
\* direct answer is appended after it.
DirectAnswer_Twice(r) ==
    /\ messages' = Append(Append(messages, RequestMessage(r)),
                          Message("assistant", r.content))
    /\ pc' = "AwaitingUserInput"
    /\ idx' = idx

\* The else branch: the response content is the answer
DirectAnswer(r) ==
    /\ messages' = Append(messages, Message("assistant", r.content))
    /\ pc' = "AwaitingUserInput"
    /\ idx' = idx

\* The first chat completion of a turn and the branch on its tool_calls
FirstCall(r) ==
    /\ pc = "AwaitingModelResponse"
    /\ last_request' = FirstRequest(messages)
    /\ n_first' = n_first + 1
    /\ raised' = r.raises
    /\ IF r.raises # ""
       THEN /\ TurnLevelHandler
            /\ UNCHANGED <<tool_calls, idx>>
       ELSE /\ tool_calls' = r.tool_calls
            /\ IF r.tool_calls # <<>>
               THEN /\ messages' = Append(messages, RequestMessage(r))
                    /\ idx' = 1
                    /\ pc' = "ToolDispatch"
               ELSE DirectAnswer(r)
    /\ UNCHANGED <<user_input, n_follow, n_fetch>>
    /\ UNCHANGED fetch_vars

FirstModelCall ==
    \E r \in FirstResponses(MaxMessages - Len(messages)) : FirstCall(r)

\* Variant: the first handled request ends the for loop.
NextRequest_Break ==
    idx' = 0 /\ pc' = "AwaitingUserInput"

\* Variant: the end of the for loop leaves the while loop as well.
NextRequest_Exit ==
    IF idx < Len(tool_calls)
    THEN idx' = idx + 1 /\ pc' = "ToolDispatch"
    ELSE idx' = 0 /\ pc' = "SessionEnd"

\* The for loop moves to the next request, or ends the turn after the last
NextRequest ==
    IF idx < Len(tool_calls)
    THEN idx' = idx + 1 /\ pc' = "ToolDispatch"
    ELSE idx' = 0 /\ pc' = "AwaitingUserInput"

\* Variant: tool results are batched, the loop goes straight to the next
\* request.
ContinueToFollowUp_Batch ==
    IF idx < Len(tool_calls)
    THEN idx' = idx + 1 /\ pc' = "ToolDispatch"
    ELSE idx' = 0 /\ pc' = "AwaitingUserInput"

\* After the tool message is appended the iteration goes on to its own
\* follow-up chat completion
ContinueToFollowUp ==
    pc' = "AwaitingFinalModelResponse" /\ idx' = idx

\* Variant: a failed GET is tried once more.
requests_made_Retry(http) == IF http.raises # "" THEN 2 ELSE 1

\* get_products_api sends one GET per invocation, whatever comes back
requests_made(http) == 1

\* One iteration of the for loop up to the follow-up call
DispatchCall(http) ==
    /\ pc = "ToolDispatch"
    /\ LET tc == tool_calls[idx]
           function_name == tc.name
           function_args == tc.arguments
           decoded == json_loads(function_args)
       IN IF IsKnownTool(function_name)
          THEN IF decoded.raises = "JSONDecodeError"
               THEN /\ messages' = Append(messages, Message("assistant",
                         <<"invalid JSON arguments", <<function_name, function_args>>>>))
                    /\ raised' = "JSONDecodeError"
                    /\ NextRequest
                    /\ UNCHANGED n_fetch
               ELSE IF ~Accepts(decoded.value)
               THEN /\ messages' = Append(messages, Message("assistant",
                         <<"error while trying to find products", <<"TypeError">>>>))
                    /\ raised' = "TypeError"
                    /\ NextRequest
                    /\ UNCHANGED n_fetch
               ELSE /\ n_fetch' = n_fetch + requests_made(http)
                    /\ messages' = Append(messages,
                         ToolMessage(tc, json_dumps(
                             get_products_api(QueryOf(decoded.value), http))))
                    /\ raised' = ""
                    /\ ContinueToFollowUp
          ELSE /\ messages' = Append(messages, Message("assistant",
                    <<"unknown tool", <<function_name>>>>))
               /\ raised' = ""
               /\ NextRequest
               /\ UNCHANGED n_fetch
    /\ UNCHANGED <<user_input, tool_calls, n_first, n_follow, last_request>>
    /\ UNCHANGED fetch_vars

ToolDispatch == \E http \in HttpOutcomes : DispatchCall(http)

\* Variant: a failed follow-up call is only printed.
FollowUpTranscript_Silent(r) ==
    IF r.raises # ""
    THEN messages
    ELSE Append(messages, Message("assistant", r.content))

\* The transcript after the follow-up call: its answer, or the report of
\* the inner except Exception
FollowUpTranscript(r) ==
    IF r.raises # ""
    THEN Append(messages, Message("assistant",
             <<"error while trying to find products", <<r.raises>>>>))
    ELSE Append(messages, Message("assistant", r.content))

\* The follow-up chat completion after a tool message, and its handlers
FollowUpCall(r) ==
    /\ pc = "AwaitingFinalModelResponse"
    /\ last_request' = FollowUpRequest(messages)
    /\ n_follow' = n_follow + 1
    /\ raised' = r.raises
    /\ messages' = FollowUpTranscript(r)
    /\ NextRequest
    /\ UNCHANGED <<user_input, tool_calls, n_first, n_fetch>>
    /\ UNCHANGED fetch_vars

FollowUp == \E r \in FollowUpResponses : FollowUpCall(r)

Next == UserInput \/ FirstModelCall \/ ToolDispatch \/ FollowUp

Spec == Init /\ [][Next]_vars

\* Every external call returns or fails, and the loop keeps running.
FairSpec == Spec /\ WF_vars(FirstModelCall) /\ WF_vars(ToolDispatch) /\ WF_vars(FollowUp)

----------------------------------------------------------------------------
(* get_products_api called on its own *)

\* Everything requests.get / raise_for_status / response.json can hand back
\* for catalogs of up to MaxProducts products.
FetchOutcomes ==
    { [raises |-> e, has_data |-> FALSE, is_list |-> FALSE, data |-> <<>>] :
        e \in {"RequestException", "ValueError"} }
    \cup { [raises |-> "", has_data |-> h, is_list |-> FALSE, data |-> <<>>] :
             h \in BOOLEAN }
    \cup { [raises |-> "", has_data |-> TRUE, is_list |-> TRUE, data |-> ps] :
             ps \in SeqsUpTo(ProductPool, MaxProducts) }

InitFetch ==
    /\ messages = << Message("system", SYSTEM_PROMPT) >>
    /\ pc = "AwaitingUserInput"
    /\ user_input = <<>>
    /\ tool_calls = <<>>
    /\ idx = 0
    /\ n_first = 0
    /\ n_follow = 0
    /\ n_fetch = 0
    /\ last_request = [messages |-> <<>>, tools |-> NoTools, tool_choice |-> "none yet"]
    /\ raised = ""
    /\ f_pc = "ready"
    /\ f_args = ""
    /\ f_query = None
    /\ f_http \in FetchOutcomes
    /\ f_result = [pending |-> TRUE]

\* get_products_api(query)
CallDirect(q) ==
    /\ f_pc = "ready"
    /\ f_query' = q
    /\ f_result' = get_products_api(q, f_http)
    /\ f_pc' = "returned"
    /\ UNCHANGED <<f_args, f_http>>
    /\ UNCHANGED loop_vars

\* args = json.loads(function_args); get_products_api(**args)
CallFromArgs(payload) ==
    /\ f_pc = "ready"
    /\ json_loads(payload).raises = ""
    /\ Accepts(json_loads(payload).value)
    /\ f_args' = payload
    /\ f_query' = QueryOf(json_loads(payload).value)
    /\ f_result' = get_products_api(QueryOf(json_loads(payload).value), f_http)
    /\ f_pc' = "returned"
    /\ UNCHANGED f_http
    /\ UNCHANGED loop_vars

FetchDirect == \E q \in Queries : CallDirect(q)

FetchFromArgs == \E payload \in ArgPayloads : CallFromArgs(payload)

NextFetch == FetchDirect \/ FetchFromArgs

SpecFetch == InitFetch /\ [][NextFetch]_vars

TypeOK ==
    /\ pc \in {"AwaitingUserInput", "AwaitingModelResponse", "ToolDispatch",
               "AwaitingFinalModelResponse", "SessionEnd"}
    /\ idx \in 0..Len(tool_calls)
    /\ Len(messages) <= MaxMessages

----------------------------------------------------------------------------
(* Vocabulary of the properties *)

\* Position of the last user message (0 before the first turn)
LastUserIdx ==
    IF \E i \in DOMAIN messages : messages[i].role = "user"
    THEN CHOOSE i \in DOMAIN messages :
            /\ messages[i].role = "user"
            /\ \A j \in DOMAIN messages : messages[j].role = "user" => j <= i
    ELSE 0

\* The tool-call requests carried by the first response of the current turn
TurnRequests ==
    IF LastUserIdx > 0 /\ Len(messages) > LastUserIdx
    THEN messages[LastUserIdx + 1].tool_calls
    ELSE <<>>

\* Positions of the tool messages with identifier x from position from on
ToolMessagesFor(x, from) ==
    { i \in DOMAIN messages :
        i >= from /\ messages[i].role = "tool" /\ messages[i].tool_call_id = x }

\* The request reaches get_products_api: known name, arguments that decode
\* into keyword arguments the function takes
Executable(tc) ==
    /\ tc.name = "get_products_api"
    /\ tc.arguments \in {"{}", "{\"query\": \"CAP\"}"}

\* The argument payload is not JSON
Undecodable(tc) == tc.arguments = "{not json"

MidTurn == pc \in {"AwaitingModelResponse", "ToolDispatch",
                   "AwaitingFinalModelResponse"}

Last(seq) == seq[Len(seq)]

\* The for loop goes on with the request after idx, or the turn ends
LoopGoesOn ==
    IF idx < Len(tool_calls)
    THEN pc' = "ToolDispatch" /\ idx' = idx + 1
    ELSE pc' = "AwaitingUserInput"

NoExternalCall ==
    /\ n_first' = n_first /\ n_follow' = n_follow /\ n_fetch' = n_fetch
    /\ last_request' = last_request

TurnOver == pc = "AwaitingUserInput" /\ LastUserIdx > 0

IsAssistantContent(m) == m.role = "assistant" /\ m.tool_calls = <<>>

----------------------------------------------------------------------------
(* C1 *)

\* C1 (as claimed): once the dispatch loop of a turn has finished, every
\* tool-call request of the turn's first response, whatever its name and
\* arguments, has exactly one tool message with its identifier in the
\* transcript.
C1_EveryRequestHasOneToolMessage ==
    TurnOver =>
        \A i \in DOMAIN TurnRequests :
            Cardinality(ToolMessagesFor(TurnRequests[i].id, 1)) = 1

\* C1 (amended): once the dispatch loop of a turn has finished, for every
\* identifier x the turn has appended exactly as many tool messages with
\* tool_call_id x as the first response carries requests with identifier x
\* that name get_products_api and whose arguments decode into arguments the
\* function takes (one per such request, whatever the fetch and the
\* follow-up call did); the other requests get no tool message.
C1_ToolMessagePerExecutableRequest ==
    TurnOver =>
        \A x \in ToolCallIds :
            Cardinality(ToolMessagesFor(x, LastUserIdx)) =
                Cardinality({ i \in DOMAIN TurnRequests :
                                TurnRequests[i].id = x /\ Executable(TurnRequests[i]) })

\* A finished turn whose response carried an executable request "call_a"
\* answered by one tool message, and a request "call_b" of an unknown tool
\* left without one.
C1_Witness ==
    /\ TurnOver
    /\ Len(TurnRequests) = 2
    /\ TurnRequests[1].id = "call_a" /\ Executable(TurnRequests[1])
    /\ TurnRequests[2].id = "call_b" /\ TurnRequests[2].name = "get_weather"
    /\ Cardinality(ToolMessagesFor("call_a", LastUserIdx)) = 1
    /\ ToolMessagesFor("call_b", LastUserIdx) = {}

----------------------------------------------------------------------------
(* C2 *)

\* C2: every tool message of the transcript carries the identifier of a
\* tool-call request of an assistant message at an earlier position.
C2_ToolMessageAnswersEarlierRequest ==
    \A i \in DOMAIN messages :
        messages[i].role = "tool" =>
            \E j \in 1..(i - 1) :
                /\ messages[j].role = "assistant"
                /\ \E k \in DOMAIN messages[j].tool_calls :
                       messages[j].tool_calls[k].id = messages[i].tool_call_id

\* A tool message for the second request of a response is in the transcript.
C2_Witness ==
    \E i \in DOMAIN messages :
        /\ messages[i].role = "tool"
        /\ messages[i].tool_call_id = "call_b"
        /\ Len(TurnRequests) = 2
        /\ TurnRequests[1].id = "call_a"

----------------------------------------------------------------------------
(* C3 *)

ErrorReport(e) ==
    Message("assistant", <<"error while trying to find products", <<e>>>>)

\* C3 (as claimed): a failure of the first model call, of a follow-up model
\* call or of the tool invocation appends the generic apology, ends the
\* dispatch of the turn and returns to AwaitingUserInput.
C3_AnyFailureEndsTurnWithApology ==
    [][ (MidTurn /\ raised' \in {"APIError", "TypeError"})
          => /\ messages' = Append(messages, Message("assistant", Apology))
             /\ pc' = "AwaitingUserInput" ]_vars

\* C3 (amended): a failure of the first model call is handled at the turn
\* level (generic apology appended, no request dispatched, no fetch, no
\* follow-up call, back to AwaitingUserInput).  A failure of a follow-up
\* model call or of the tool invocation is handled inside the iteration of
\* that request: one assistant message "I encountered an error while trying
\* to find products: <e>" is appended and the loop goes on with the next
\* request of the turn.
C3_FailureHandling ==
    [][ /\ (pc = "AwaitingModelResponse" /\ raised' # "")
             => /\ messages' = Append(messages, Message("assistant", Apology))
                /\ pc' = "AwaitingUserInput"
                /\ n_fetch' = 0 /\ n_follow' = 0
        /\ (pc \in {"ToolDispatch", "AwaitingFinalModelResponse"}
              /\ raised' \in {"APIError", "TypeError"})
             => /\ messages' = Append(messages, ErrorReport(raised'))
                /\ LoopGoesOn ]_vars

\* The follow-up call of the first of two requests failed after its tool
\* message was appended, and the loop stands at the second request.
C3_Witness ==
    /\ raised = "APIError"
    /\ pc = "ToolDispatch" /\ idx = 2
    /\ messages[Len(messages) - 1].role = "tool"
    /\ Last(messages) = ErrorReport("APIError")

----------------------------------------------------------------------------
(* C4 *)

InvalidJsonReport(tc) ==
    Message("assistant", <<"invalid JSON arguments", <<tc.name, tc.arguments>>>>)

UnknownToolReport(tc) ==
    Message("assistant", <<"unknown tool", <<tc.name>>>>)

\* C4 (as claimed): for a request of any tool name whose arguments are not
\* JSON, dispatch appends exactly the invalid-JSON report, makes no fetch
\* and no model call, and goes on with the next request.
C4_UndecodableAnyName ==
    [][ (pc = "ToolDispatch" /\ Undecodable(tool_calls[idx]))
          => /\ messages' = Append(messages, InvalidJsonReport(tool_calls[idx]))
             /\ NoExternalCall
             /\ LoopGoesOn ]_vars

\* C4 (amended): for a request named get_products_api whose arguments are
\* not JSON, dispatch appends exactly the invalid-JSON report, makes no
\* fetch and no model call, appends no tool message and goes on with the
\* next request.  The tool name is tested first: a request of another name
\* is never decoded and gets the unknown-tool report instead, also exactly
\* one assistant message and nothing else.
C4_UndecodableKnownTool ==
    [][ (pc = "ToolDispatch" /\ Undecodable(tool_calls[idx]))
          => /\ messages' = Append(messages,
                    IF tool_calls[idx].name = "get_products_api"
                    THEN InvalidJsonReport(tool_calls[idx])
                    ELSE UnknownToolReport(tool_calls[idx]))
             /\ NoExternalCall
             /\ LoopGoesOn ]_vars

\* The first of two requests named get_products_api with "{not json", was
\* reported and the loop stands at the second request.
C4_Witness ==
    /\ raised = "JSONDecodeError"
    /\ pc = "ToolDispatch" /\ idx = 2
    /\ Last(messages) = InvalidJsonReport(tool_calls[1])
    /\ n_fetch = 0 /\ n_follow = 0

----------------------------------------------------------------------------
(* C5 *)

\* C5: for a request whose tool name is not get_products_api, dispatch
\* appends exactly one assistant message reporting the unknown tool, makes
\* no fetch and no model call, appends no tool message, and goes on with
\* the next request of the turn.
C5_UnknownTool ==
    [][ (pc = "ToolDispatch" /\ tool_calls[idx].name # "get_products_api")
          => /\ messages' = Append(messages, UnknownToolReport(tool_calls[idx]))
             /\ NoExternalCall
             /\ LoopGoesOn ]_vars

\* An unknown tool was reported for the first of two requests and the loop
\* stands at the second.
C5_Witness ==
    /\ pc = "ToolDispatch" /\ idx = 2
    /\ tool_calls[1].name = "get_weather"
    /\ Last(messages) = UnknownToolReport(tool_calls[1])
    /\ n_fetch = 0 /\ n_follow = 0

----------------------------------------------------------------------------
(* C6 *)

\* C6: a follow-up model call is submitted without tool declarations, and
\* its response only adds one assistant content message: requests it
\* carries are not taken up (tool_calls unchanged) and cause no fetch.  A
\* model call that carries tool declarations is the first call of a turn,
\* with tool_choice "auto".
C6_FollowUpWithoutTools ==
    [][ /\ pc = "AwaitingFinalModelResponse"
             => /\ last_request'.tools = NoTools
                /\ last_request'.tool_choice # "auto"
                /\ messages' = Append(messages, Last(messages'))
                /\ IsAssistantContent(Last(messages'))
                /\ tool_calls' = tool_calls
                /\ n_fetch' = n_fetch
        /\ pc = "AwaitingModelResponse"
             => /\ last_request'.tools = available_tools
                /\ last_request'.tool_choice = "auto"
        /\ (last_request' # last_request /\ last_request'.tools # NoTools)
             => pc = "AwaitingModelResponse" ]_vars

\* A follow-up response that carried a tool-call request (and no prose) was
\* appended as an assistant content message and ended the turn.
C6_Witness ==
    /\ TurnOver
    /\ Len(TurnRequests) = 1
    /\ n_follow = 1 /\ n_fetch = 1
    /\ messages[Len(messages) - 1].role = "tool"
    /\ Last(messages) = Message("assistant", <<"None", <<>>>>)
    /\ last_request.tools = NoTools

----------------------------------------------------------------------------
(* C7 *)

\* C7: every turn terminates.  Once a user message is appended the
\* orchestrator gets back to AwaitingUserInput (every model call and fetch
\* returning or failing), with exactly one first model call and at most
\* one follow-up call per request of the first response.
C7_TurnTerminates ==
    /\ [](n_first <= 1 /\ n_follow <= Len(TurnRequests))
    /\ [](TurnOver => n_first = 1)
    /\ (MidTurn ~> pc = "AwaitingUserInput")

\* A turn with two requests is over after 1 + 2 model calls.
C7_Witness ==
    /\ TurnOver
    /\ Len(TurnRequests) = 2
    /\ n_first = 1 /\ n_follow = 2

----------------------------------------------------------------------------
(* C8 *)

\* C8: requests are dispatched one at a time in the order received.  When
\* the fetch for a request starts and the request before it reached
\* get_products_api, the transcript already ends with that request's tool
\* message and the assistant message of its follow-up call; the follow-up
\* call of a request is submitted the whole transcript, ending with the
\* request's own tool message; the loop only moves from a request to the
\* one after it.
C8_SequentialDispatch ==
    [][ /\ (pc = "ToolDispatch" /\ n_fetch' = n_fetch + 1
              /\ idx > 1 /\ Executable(tool_calls[idx - 1]))
             => /\ messages[Len(messages) - 1].role = "tool"
                /\ messages[Len(messages) - 1].tool_call_id = tool_calls[idx - 1].id
                /\ IsAssistantContent(Last(messages))
        /\ pc = "AwaitingFinalModelResponse"
             => /\ last_request'.messages = messages
                /\ Last(messages).role = "tool"
                /\ Last(messages).tool_call_id = tool_calls[idx].id
        /\ (pc \in {"ToolDispatch", "AwaitingFinalModelResponse"}
              /\ pc' = "ToolDispatch")
             => idx' = idx + 1
        /\ (pc = "ToolDispatch" /\ pc' = "AwaitingFinalModelResponse")
             => idx' = idx ]_vars

\* The fetch of the second of two executable requests is done, after the
\* tool message and the follow-up answer of the first.
C8_Witness ==
    /\ pc = "AwaitingFinalModelResponse" /\ idx = 2
    /\ n_fetch = 2 /\ n_follow = 1
    /\ Executable(tool_calls[1])
    /\ messages[Len(messages) - 2].role = "tool"
    /\ IsAssistantContent(messages[Len(messages) - 1])
    /\ Last(messages).role = "tool"

----------------------------------------------------------------------------
(* C9 *)

ExitWords == { <<"e","x","i","t">>, <<"q","u","i","t">> }

\* C9: an input that is 'exit' or 'quit' after trimming and lower-casing
\* ends the session at once: no message is appended, no model call and no
\* fetch is made, and nothing happens after the session has ended.
C9_ExitEndsSession ==
    [][ /\ (pc = "AwaitingUserInput" /\ lower(strip(user_input')) \in ExitWords)
             => /\ pc' = "SessionEnd"
                /\ messages' = messages
                /\ NoExternalCall
        /\ pc # "SessionEnd" ]_vars

\* The session ended on " ExIT\n" typed after a completed turn.
C9_Witness ==
    /\ pc = "SessionEnd"
    /\ user_input = <<" ","E","x","I","T","\n">>
    /\ Len(messages) > 1

----------------------------------------------------------------------------
(* C10 *)

\* C10 (as claimed): an empty input line ends the session like the exit
\* sentinel, appending no user message.
C10_EmptyLineEndsSession ==
    [][ (pc = "AwaitingUserInput" /\ user_input' = <<>>)
          => /\ pc' = "SessionEnd"
             /\ messages' = messages ]_vars

\* C10 (amended): an empty input line does not end the session.  Only an
\* input equal to 'exit' or 'quit' after trimming and lower-casing does;
\* every other input, the empty line included, appends a user message with
\* the line as typed and moves to AwaitingModelResponse.
C10_OnlySentinelEndsSession ==
    [][ pc = "AwaitingUserInput"
          => IF lower(strip(user_input')) \in ExitWords
             THEN pc' = "SessionEnd" /\ messages' = messages
             ELSE /\ messages' = Append(messages,
                                        Message("user", <<"user", user_input'>>))
                  /\ pc' = "AwaitingModelResponse" ]_vars

\* The empty line was appended as a user message and the first model call
\* is pending.
C10_Witness ==
    /\ pc = "AwaitingModelResponse"
    /\ user_input = <<>>
    /\ Last(messages) = Message("user", <<"user", <<>>>>)

----------------------------------------------------------------------------
(* C11 *)

\* C11: the session ends only through the exit command.  A step ends the
\* session only from AwaitingUserInput on an input that is 'exit' or 'quit'
\* after trimming and lower-casing; a step in which a model call fails,
\* arguments do not decode, the tool invocation raises or an unknown tool
\* is reported leaves the orchestrator in its loop (at the next request or
\* back in AwaitingUserInput), and in AwaitingUserInput the next input can
\* be read.
C11_OnlyExitEndsSession ==
    /\ [][ /\ pc' = "SessionEnd"
                => /\ pc = "AwaitingUserInput"
                   /\ lower(strip(user_input')) \in ExitWords
           /\ (MidTurn /\ (raised' # ""
                            \/ (pc = "ToolDispatch"
                                  /\ tool_calls[idx].name # "get_products_api")))
                => pc' \in {"ToolDispatch", "AwaitingUserInput"} ]_vars
    /\ [](pc = "AwaitingUserInput" => ENABLED UserInput)

\* After a failed first model call the orchestrator waits for input again.
C11_Witness ==
    /\ pc = "AwaitingUserInput"
    /\ raised = "APIError"
    /\ Last(messages) = Message("assistant", Apology)

----------------------------------------------------------------------------
(* Vocabulary of the properties of get_products_api *)

FieldText(product, key) ==
    IF key \in DOMAIN product THEN product[key] ELSE <<>>

\* The lower-cased 'productName description category' text of the product
\* contains the lower-cased query
Matches(product, q) ==
    Contains(lower(q),
             lower(FieldText(product, "productName") \o <<" ">>
                   \o FieldText(product, "description") \o <<" ">>
                   \o FieldText(product, "category")))

MatchesQuery(product) == Matches(product, f_query.text)

Returned == f_pc = "returned"

WellFormedBody == f_http.raises = "" /\ f_http.has_data /\ f_http.is_list

NonEmptyQuery == ~f_query.is_none /\ f_query.text # <<>>

HasNullField(product) ==
    \E key \in {"productName", "description", "category"} :
        key \in DOMAIN product /\ product[key] = NullField

AllFieldsText == \A i \in DOMAIN f_http.data : ~HasNullField(f_http.data[i])

IsData(result) == "data" \in DOMAIN result
IsError(result) == "error" \in DOMAIN result

----------------------------------------------------------------------------
(* C12 *)

----------------------------------------------------------------------------
(* C13 *)

----------------------------------------------------------------------------
(* C14 *)

ExactlyOneVariant(result) == IsData(result) # IsError(result)

----------------------------------------------------------------------------
(* C15 *)

IsPrefix(a, b) == Len(a) <= Len(b) /\ SubSeq(b, 1, Len(a)) = a

\* C15: the transcript is append-only.  Every step leaves it unchanged or
\* appends at its end, on error paths too, and its first message is always
\* the system prompt.
C15_AppendOnly ==
    /\ [][IsPrefix(messages, messages')]_vars
    /\ [](messages[1] = Message("system", SYSTEM_PROMPT))

\* A turn that went through the turn-level handler and a later turn whose
\* follow-up call failed are both in the transcript.
C15_Witness ==
    /\ TurnOver
    /\ messages[3] = Message("assistant", Apology)
    /\ Last(messages) = ErrorReport("APIError")
    /\ messages[1] = Message("system", SYSTEM_PROMPT)

----------------------------------------------------------------------------
(* C16 *)

\* C16: when the first response of a turn carries no tool-call request,
\* the turn consists of the user message and one assistant message with
\* the response content, one model call and no fetch, and the orchestrator
\* is back in AwaitingUserInput.
C16_DirectAnswer ==
    [][ (pc = "AwaitingModelResponse" /\ raised' = "" /\ tool_calls' = <<>>)
          => /\ Last(messages).role = "user"
             /\ messages' = Append(messages, Message("assistant", <<"answer", <<>>>>))
             /\ n_first' = 1 /\ n_follow' = 0 /\ n_fetch' = 0
             /\ pc' = "AwaitingUserInput" ]_vars

\* A second turn answered directly: two more messages than after the first.
C16_Witness ==
    /\ TurnOver
    /\ tool_calls = <<>> /\ raised = ""
    /\ Len(messages) = 5 /\ LastUserIdx = 4
    /\ Last(messages) = Message("assistant", <<"answer", <<>>>>)
    /\ n_first = 1 /\ n_follow = 0 /\ n_fetch = 0

----------------------------------------------------------------------------
(* C17 *)

\* Requests of the turn whose iteration has got past the fetch
Handled ==
    CASE pc = "ToolDispatch" -> idx - 1
      [] pc = "AwaitingFinalModelResponse" -> idx
      [] OTHER -> Len(TurnRequests)

\* C17: no retries.  The catalog is fetched only in the dispatch of a
\* request named get_products_api whose arguments decoded, once per such
\* request, also when the fetch gives the error variant; the result, data
\* or error, goes into the tool message of the request and its follow-up
\* model call comes next.
C17_OneFetchPerRequest ==
    /\ [][ (n_fetch' # n_fetch /\ pc # "AwaitingUserInput")
             => /\ pc = "ToolDispatch"
                /\ Executable(tool_calls[idx])
                /\ n_fetch' = n_fetch + 1
                /\ messages' = Append(messages, Last(messages'))
                /\ Last(messages').role = "tool"
                /\ Last(messages').tool_call_id = tool_calls[idx].id
                /\ Last(messages').content[1] \in {"data", "error"}
                /\ pc' = "AwaitingFinalModelResponse" ]_vars
    /\ [](n_fetch = Cardinality({ i \in 1..Handled : Executable(TurnRequests[i]) }))

\* A fetch that failed was put into the tool message as an error result,
\* answered by the follow-up call, and not repeated.
C17_Witness ==
    /\ TurnOver
    /\ Len(TurnRequests) = 1
    /\ n_fetch = 1 /\ n_follow = 1
    /\ messages[Len(messages) - 1].role = "tool"
    /\ messages[Len(messages) - 1].content[1] = "error"
    /\ Last(messages) = Message("assistant", <<"answer", <<>>>>)

----------------------------------------------------------------------------
(* C18 *)

\* C18: in AwaitingUserInput every tool message of the transcript is
\* directly followed by an assistant content message, so no two tool
\* messages are adjacent and none is last.
C18_ToolMessageIsAnswered ==
    pc = "AwaitingUserInput" =>
        \A i \in DOMAIN messages :
            messages[i].role = "tool" =>
                /\ i < Len(messages)
                /\ IsAssistantContent(messages[i + 1])

\* Two tool messages of one turn, the first followed by the report of its
\* failed follow-up call, the second by an answer.
C18_Witness ==
    /\ pc = "AwaitingUserInput"
    /\ Len(messages) = 7
    /\ messages[4].role = "tool" /\ messages[5] = ErrorReport("APIError")
    /\ messages[6].role = "tool" /\ IsAssistantContent(messages[7])

----------------------------------------------------------------------------
(* C19 *)

UserMessages == { i \in DOMAIN messages : messages[i].role = "user" }

\* C19: a turn appends exactly one user message, the line read, and when
\* the orchestrator is back in AwaitingUserInput the transcript ends with
\* an assistant content message that comes after it, on every path.
C19_TurnEndsWithAssistantContent ==
    /\ [][ UserMessages' # UserMessages
             => /\ pc = "AwaitingUserInput" /\ pc' = "AwaitingModelResponse"
                /\ UserMessages' = UserMessages \cup {Len(messages')}
                /\ Len(messages') = Len(messages) + 1 ]_vars
    /\ [](TurnOver => /\ Len(messages) > LastUserIdx
                      /\ IsAssistantContent(Last(messages))
                      /\ messages[LastUserIdx].content = <<"user", user_input>>)

\* A turn whose two requests were both refused (arguments that are not
\* JSON, then an unknown tool) is over.
C19_Witness ==
    /\ TurnOver
    /\ Len(TurnRequests) = 2
    /\ Undecodable(TurnRequests[1]) /\ TurnRequests[1].name = "get_products_api"
    /\ TurnRequests[2].name = "get_weather"
    /\ Last(messages) = UnknownToolReport(TurnRequests[2])
    /\ Len(messages) = LastUserIdx + 3

====
